---- MODULE Spec2Model ----
(***************************************************************************)
(* Model of the step executor of harness-docker-runner                     *)
(* (src/pipeline/runtime/step_executor.go): the three registries guarded   *)
(* by one mutex, StartStep / PollStep / StreamOutput, the background run   *)
(* task (executeStep, executeStepDrone), and the response conversion.      *)
(***************************************************************************)
EXTENDS Integers, Sequences, FiniteSets, TLC

\* ---- bounds -------------------------------------------------------------
NumCallers == 3        \* API calls issued over one behaviour (one per caller)
NumStreamCallers == 2  \* API calls issued over one behaviour of SpecStream
NumAllCallers == 2     \* API calls issued over one behaviour of SpecAll
NumCancelCallers == 2  \* API calls issued over one behaviour of SpecCancel
NumFairCallers == 2    \* API calls issued over one behaviour of SpecFair
MaxWrites  == 1        \* chunks the engine writes into one log buffer

\* ---- program constants: the wait of StreamOutput, in milliseconds -------
retryDelay   == 100    \* 100 * time.Millisecond
timeoutDelay == 5000   \* 5 * time.Second

Callers == 1..NumCallers
StreamCallers == 1..NumStreamCallers
AllCallers == 1..NumAllCallers
CancelCallers == 1..NumCancelCallers
FairCallers == 1..NumFairCallers
Streamers == {1}        \* the caller that may issue StreamOutput
Ids     == {"s1"}
EmptyID == ""

\* ExecutionStatus
Running  == "Running"
Complete == "Complete"

\* ---- error values ---------------------------------------------------------
\* A Go error is nil, a plain error, or a *multierror.Error (list of causes).
NilErr       == [kind |-> "nil", causes |-> <<>>]
PlainErr(c)  == [kind |-> "plain", causes |-> <<c>>]
RunErr       == PlainErr("run failed")
CloseErr     == PlainErr("stream close failed")
DeadlineExceeded == PlainErr("context deadline exceeded")
Canceled     == PlainErr("context canceled")
OOMErr       == PlainErr("oom killed")
ExitStatusErr(code) == PlainErr(IF code = 1 THEN "exit status 1" ELSE "exit status 137")

\* multierror.Append(err, e): flattens, skips a nil e, always returns a
\* non-nil *Error (also when nothing was appended).
multierrorAppend(err, e) ==
    [kind |-> "multi",
     causes |-> (IF err.kind = "nil" THEN <<>> ELSE err.causes)
                 \o (IF e.kind = "nil" THEN <<>> ELSE e.causes)]

\* err.Error(): a plain error prints its text, a multierror prints a header
\* ("N errors occurred:") followed by one point per cause.
NoText == [header |-> FALSE, points |-> <<>>]
ErrorText(e) == [header |-> (e.kind = "multi"), points |-> e.causes]
TextHas(t, c) == \E i \in 1..Len(t.points) : t.points[i] = c

\* ---- runtime.State, results -----------------------------------------------
NilState == [nil |-> TRUE, Exited |-> FALSE, ExitCode |-> 0, OOMKilled |-> FALSE]
MkState(ex, code, oom) == [nil |-> FALSE, Exited |-> ex, ExitCode |-> code, OOMKilled |-> oom]
NotExitedState == MkState(FALSE, 0, FALSE)
EngineStates == {NilState, MkState(TRUE, 0, FALSE), MkState(TRUE, 1, FALSE),
                 MkState(TRUE, 137, TRUE)}

\* outputs, artifact, v2 outputs, optimization token, telemetry of one run
NoResults  == [Outputs |-> "nil", Artifact |-> "nil", OutputV2 |-> "nil",
               OptimizationState |-> "", Telemetry |-> "nil"]
FullResults == [Outputs |-> "outputs", Artifact |-> "artifact", OutputV2 |-> "outputV2",
                OptimizationState |-> "token", Telemetry |-> "telemetry"]
OnlyTelemetry(res) == [NoResults EXCEPT !.Telemetry = res.Telemetry]

\* StepStatus
MkStatus(st, state, err, res) == [Status |-> st, State |-> state, StepErr |-> err, Res |-> res]
RunningStatus == MkStatus(Running, NilState, NilErr, NoResults)

\* api.PollStepResponse
MkResponse(ex, code, oom, res, text) ==
    [Exited |-> ex, ExitCode |-> code, OOMKilled |-> oom, Res |-> res, Error |-> text]
EmptyResponse == MkResponse(FALSE, 0, FALSE, NoResults, NoText)

\* (mutation of statusErr: the synthesized cause replaces the step error)
statusErrReplace(status) ==
    LET st == status.State
    IN IF st.nil THEN status.StepErr
       ELSE IF st.OOMKilled THEN OOMErr
       ELSE IF st.ExitCode # 0 THEN ExitStatusErr(st.ExitCode)
       ELSE status.StepErr

\* lines 324, 331-340: stepErr := status.StepErr, then the cause of an OOM kill,
\* else of a nonzero exit code, is appended to it
statusErr(status) ==
    LET st == status.State
    IN IF st.nil THEN status.StepErr
       ELSE IF st.OOMKilled THEN multierrorAppend(status.StepErr, OOMErr)
       ELSE IF st.ExitCode # 0
            THEN multierrorAppend(status.StepErr, ExitStatusErr(st.ExitCode))
       ELSE status.StepErr

\* (mutation of statusExitCode: the code 255 is not forced)
statusExitCodeOfState(status) ==
    IF status.State.nil THEN 0 ELSE status.State.ExitCode

\* lines 331-334 and 342-344: the exit code of the state, if there is one,
\* forced to 255 when the stored step error is not nil
statusExitCode(status) ==
    IF status.StepErr.kind # "nil" THEN 255
    ELSE IF status.State.nil THEN 0 ELSE status.State.ExitCode

\* lines 319-349: convertStatus
convertStatus(status) ==
    LET st == status.State
        stepErr == statusErr(status)
        exited == IF st.nil THEN TRUE ELSE st.Exited
        oom    == IF st.nil THEN FALSE ELSE st.OOMKilled
    IN MkResponse(exited, statusExitCode(status), oom, status.Res,
                  IF stepErr.kind # "nil" THEN ErrorText(stepErr) ELSE NoText)

\* ---- state ------------------------------------------------------------------
VARIABLES
    mu,          \* holder of e.mu
    stepStatus,  \* e.stepStatus : id -> StepStatus (partial map)
    stepLog,     \* e.stepLog    : id -> log buffer (named by the caller whose run made it)
    stepWaitCh,  \* e.stepWaitCh : id -> list of waiter channels (partial map)
    op, req, pc, result,   \* per API call: operation, request, position, return value
    cctx,        \* per API call: the caller's context is canceled
    chans,       \* per PollStep call: the buffered channel it made (capacity 1)
    run,         \* per StartStep call: the goroutine it launched
    ctx,         \* per launched run: the run's (or log buffer's) context
    det,         \* per launched run: the detached goroutine, if any
    logLen, subscribers,   \* per log buffer: bytes written, subscribed channels
    elapsed,     \* per StreamOutput call: time.Since(ts)
    watcher, chClosed,     \* per StreamOutput call: watcher position, close(chData) count
    hist         \* history: what has been observed so far (no effect on behaviour)

vars == <<mu, stepStatus, stepLog, stepWaitCh, op, req, pc, result, cctx, chans,
          run, ctx, det, logLen, subscribers, elapsed, watcher, chClosed, hist>>

registries == <<stepStatus, stepLog, stepWaitCh>>
streamVars == <<logLen, subscribers, elapsed, watcher, chClosed>>

Free          == [t |-> "free", c |-> 0]
CallerTask(c) == [t |-> "call", c |-> c]
RunTask(c)    == [t |-> "run", c |-> c]

Timeouts  == {0, 1}
StartReqs == [ID : Ids \cup {EmptyID}, LogDrone : BOOLEAN, Detach : BOOLEAN, Timeout : Timeouts]
NoReq     == [ID |-> EmptyID, LogDrone |-> FALSE, Detach |-> FALSE, Timeout |-> 0]
IdReq(id) == [NoReq EXCEPT !.ID = id]

\* return value of an API call: the error, the poll response, the return site
MkResult(err, resp, via) == [err |-> err, resp |-> resp, via |-> via]
NoResult   == MkResult("", EmptyResponse, "")
BadRequest(msg, via) == MkResult(msg, EmptyResponse, via)

NoRun == [pc |-> "none", exited |-> NilState, rerr |-> NilErr, res |-> NoResults,
          cerr |-> NilErr, wcErr |-> FALSE, timedOut |-> FALSE,
          status |-> RunningStatus, channels |-> <<>>, late |-> FALSE,
          expired |-> FALSE]

Put(m, k, v) == [x \in DOMAIN m \cup {k} |-> IF x = k THEN v ELSE m[x]]

Init ==
    /\ mu = Free
    /\ stepStatus = <<>>
    /\ stepLog = <<>>
    /\ stepWaitCh = <<>>
    /\ op = [c \in Callers |-> ""]
    /\ req = [c \in Callers |-> NoReq]
    /\ pc = [c \in Callers |-> "idle"]
    /\ result = [c \in Callers |-> NoResult]
    /\ cctx = [c \in Callers |-> FALSE]
    /\ chans = [c \in Callers |-> <<>>]
    /\ run = [c \in Callers |-> NoRun]
    /\ ctx = [c \in Callers |-> "none"]
    /\ det = [c \in Callers |-> "none"]
    /\ logLen = [c \in Callers |-> 0]
    /\ subscribers = [c \in Callers |-> {}]
    /\ elapsed = [c \in Callers |-> 0]
    /\ watcher = [c \in Callers |-> "none"]
    /\ chClosed = [c \in Callers |-> 0]
    /\ hist = [launches |-> [i \in Ids |-> 0], writes |-> [i \in Ids |-> 0],
               sendOnClosed |-> FALSE,
               startedInWait |-> [c \in Callers |-> FALSE]]

Return(c, r) == /\ pc' = [pc EXCEPT ![c] = "done"]
                /\ result' = [result EXCEPT ![c] = r]

\* ---- StartStep ----------------------------------------------------------------
\* (mutation of AlreadyStarted: the existence check is lost)
AlreadyStartedNever(id) == FALSE

\* line 70: _, ok := e.stepStatus[r.ID]
AlreadyStarted(id) == id \in DOMAIN stepStatus

\* lines 65-69: validate the identifier, then e.mu.Lock().  Only r.ID is read
\* here; the other fields of the request are drawn where the goroutine is
\* launched, which is where they are first read.
StartStepCall(c) ==
    /\ pc[c] = "idle"
    /\ \E id \in Ids \cup {EmptyID} :
        /\ op' = [op EXCEPT ![c] = "StartStep"]
        /\ req' = [req EXCEPT ![c] = IdReq(id)]
        /\ IF id = EmptyID
           THEN /\ Return(c, BadRequest("ID needs to be set", "invalid"))
                /\ mu' = mu
           ELSE /\ mu = Free
                /\ mu' = CallerTask(c)
                /\ pc' = [pc EXCEPT ![c] = "start_locked"]
                /\ result' = result
    /\ UNCHANGED <<registries, cctx, chans, run, ctx, det, streamVars, hist>>

\* lines 70-91: idempotent check, insert Running, unlock, launch the goroutine
StartStepRegister(c) ==
    /\ pc[c] = "start_locked"
    /\ mu = CallerTask(c)
    /\ mu' = Free
    /\ LET id == req[c].ID IN
       IF AlreadyStarted(id)
       THEN /\ Return(c, MkResult("", EmptyResponse, "exists"))
            /\ UNCHANGED <<stepStatus, run, hist, req>>
       ELSE /\ \E r \in StartReqs : r.ID = id /\ req' = [req EXCEPT ![c] = r]
            /\ stepStatus' = Put(stepStatus, id, RunningStatus)
            /\ run' = [run EXCEPT ![c].pc = "exec"]
            /\ hist' = [hist EXCEPT !.launches[id] = @ + 1, !.writes[id] = @ + 1,
                          !.startedInWait = [s \in Callers |->
                              @[s] \/ (op[s] = "StreamOutput" /\ req[s].ID = id
                                       /\ pc[s] \in {"stream_try", "stream_sleep"})]]
            /\ Return(c, MkResult("", EmptyResponse, "launched"))
    /\ UNCHANGED <<stepLog, stepWaitCh, op, cctx, chans, ctx, det, streamVars>>

\* the goroutine of lines 79-90 was started for the call of c
Launched(c) == run[c].pc # "none"

\* ---- the run: executeStep / executeStepDrone ----------------------------------
\* ctx.Err() of a context in the given state
ctxErr(cv) == IF cv = "deadline" THEN DeadlineExceeded
              ELSE IF cv = "canceled" THEN Canceled ELSE NilErr

\* (mutation of stepTimedOut: the context check is lost)
stepTimedOutNever(cv) == FALSE

\* lines 287-288: switch ctx.Err() { case context.Canceled, context.DeadlineExceeded
stepTimedOut(cv) == cv \in {"canceled", "deadline"}

\* line 206: ctx.Err() == context.Canceled || ctx.Err() == context.DeadlineExceeded
droneTimedOut(cv) == cv \in {"canceled", "deadline"}

\* (mutation of aggregate: the close error overwrites the run error)
aggregateLast(rerr, cerr) ==
    IF cerr.kind # "nil" THEN cerr ELSE rerr

\* lines 275-283: the run error and the close error are appended to result
aggregate(rerr, cerr) ==
    LET r1 == IF rerr.kind # "nil" THEN multierrorAppend(NilErr, rerr) ELSE NilErr
    IN IF cerr.kind # "nil" THEN multierrorAppend(r1, cerr) ELSE r1

\* lines 292-297: nonzero exit and wc.Error() != nil appends err (the close error)
foldExit(res, exited, cerr, wcErr) ==
    IF ~exited.nil /\ exited.ExitCode # 0 /\ wcErr
    THEN multierrorAppend(res, cerr) ELSE res

\* (mutation of primaryStatus: what the run returned is kept on a timeout)
primaryStatusKeepsResults(exited, res, rerr, cerr, wcErr, cv) ==
    IF stepTimedOut(cv)
    THEN MkStatus(Complete, exited, ctxErr(cv), res)
    ELSE MkStatus(Complete, exited, foldExit(aggregate(rerr, cerr), exited, cerr, wcErr), res)

\* lines 274-305 and line 81: the Complete record of a non-detached primary run
primaryStatus(exited, res, rerr, cerr, wcErr, cv) ==
    IF stepTimedOut(cv)
    THEN MkStatus(Complete, NilState, ctxErr(cv), OnlyTelemetry(res))
    ELSE MkStatus(Complete, exited, foldExit(aggregate(rerr, cerr), exited, cerr, wcErr), res)

\* lines 205-223, 239 and 81: the Complete record of a non-detached legacy run
droneStatus(exited, rerr, cv) ==
    IF droneTimedOut(cv) THEN MkStatus(Complete, NilState, ctxErr(cv), NoResults)
    ELSE IF rerr.kind # "nil" THEN MkStatus(Complete, NilState, rerr, NoResults)
    ELSE MkStatus(Complete, exited, NilErr, NoResults)

\* lines 230, 262 and 81: the Complete record of a detached step
detachedStatus == MkStatus(Complete, NotExitedState, NilErr, NoResults)

\* (mutation of isDetached: the detach flag is ignored)
isDetachedNever(r) == FALSE

\* lines 228 and 251: if r.Detach
isDetached(r) == r.Detach

\* cancel() of a context: a context that is already done keeps its error
cancel(cv) == IF cv = "live" THEN "canceled" ELSE cv

\* (mutation of usesLegacyPath: every step is run on the legacy path)
usesLegacyPathAlways(r) == TRUE

\* line 237: if r.LogDrone
usesLegacyPath(r) == r.LogDrone

\* lines 242-272: primary path up to the call of e.run (wr.Open's error is only logged)
ExecPrimary(c) ==
    /\ run[c].pc = "exec"
    /\ ~usesLegacyPath(req[c])
    /\ ctx' = [ctx EXCEPT ![c] = "live"]
    /\ IF isDetached(req[c])
       THEN /\ det' = [det EXCEPT ![c] = "run"]
            /\ run' = [run EXCEPT ![c].pc = "ret", ![c].status = detachedStatus]
       ELSE /\ det' = det
            /\ run' = [run EXCEPT ![c].pc = "p_run"]
    /\ UNCHANGED <<mu, registries, op, req, pc, result, cctx, chans, streamVars, hist>>

\* lines 182-196: legacy path builds the context and the log buffer, then e.mu.Lock()
ExecDroneLock(c) ==
    /\ run[c].pc = "exec"
    /\ usesLegacyPath(req[c])
    /\ mu = Free
    /\ mu' = RunTask(c)
    /\ ctx' = [ctx EXCEPT ![c] = "live"]
    /\ run' = [run EXCEPT ![c].pc = "drone_locked"]
    /\ UNCHANGED <<registries, op, req, pc, result, cctx, chans, det, streamVars, hist>>

\* lines 197-233: register the buffer, unlock, then run detached or synchronously
ExecDroneRegister(c) ==
    /\ run[c].pc = "drone_locked"
    /\ mu = RunTask(c)
    /\ mu' = Free
    /\ stepLog' = Put(stepLog, req[c].ID, c)
    /\ IF isDetached(req[c])
       THEN /\ det' = [det EXCEPT ![c] = "run"]
            /\ run' = [run EXCEPT ![c].pc = "ret", ![c].status = detachedStatus]
       ELSE /\ det' = det
            /\ run' = [run EXCEPT ![c].pc = "drone_run"]
    /\ UNCHANGED <<stepStatus, stepWaitCh, op, req, pc, result, cctx, chans, ctx,
                   streamVars, hist>>

\* (mutation of scopeExpires: the run's context is derived from the context of
\* the StartStep call, so it is done as soon as that one is canceled)
scopeExpiresWithCaller(c) == req[c].Timeout > 0 \/ cctx[c]

\* lines 182-188, 254-258, 265-272: the context of the run is made from
\* context.Background() and is given a deadline only if r.Timeout > 0
scopeExpires(c) == req[c].Timeout > 0

\* context.WithTimeout: the deadline of a run with Timeout > 0 passes
DeadlineExpire(c) ==
    /\ scopeExpires(c)
    /\ ctx[c] = "live"
    /\ ctx' = [ctx EXCEPT ![c] = "deadline"]
    /\ UNCHANGED <<mu, registries, op, req, pc, result, cctx, chans, run, det,
                   streamVars, hist>>

EngineErrs == {NilErr, RunErr}
EngineResults == {FullResults}

\* line 274: e.run returns on the primary path
EngineReturn(c) ==
    /\ run[c].pc = "p_run"
    /\ \E st \in EngineStates, e \in EngineErrs, rs \in EngineResults :
         run' = [run EXCEPT ![c].pc = "p_close", ![c].exited = st, ![c].rerr = e,
                            ![c].res = rs, ![c].late = (ctx[c] = "deadline")]
    /\ UNCHANGED <<mu, registries, op, req, pc, result, cctx, chans, ctx, det,
                   streamVars, hist>>

\* wc.Error() != nil; it is read (line 294) only past the context check and
\* for a nonzero exit code
wcErrors(exited, cv) ==
    IF ~stepTimedOut(cv) /\ ~exited.nil /\ exited.ExitCode # 0 THEN BOOLEAN ELSE {FALSE}

\* lines 281-305 (and the deferred cancel of line 271): wc.Close returns, the
\* context is examined, executeStep returns
WriterClose(c) ==
    /\ run[c].pc = "p_close"
    /\ \E ce \in {NilErr, CloseErr}, we \in wcErrors(run[c].exited, ctx[c]) :
         run' = [run EXCEPT ![c].pc = "ret", ![c].cerr = ce, ![c].wcErr = we,
                            ![c].timedOut = stepTimedOut(ctx[c]),
                            ![c].expired = (ctx[c] = "deadline"),
                            ![c].status = primaryStatus(run[c].exited, run[c].res,
                                                        run[c].rerr, ce, we, ctx[c])]
    /\ ctx' = [ctx EXCEPT ![c] = IF req[c].Timeout > 0 THEN cancel(@) ELSE @]
    /\ UNCHANGED <<mu, registries, op, req, pc, result, cctx, chans, det,
                   streamVars, hist>>

\* lines 201-223: e.run returns on the legacy path, runStep returns, cancel() runs
EngineReturnDrone(c) ==
    /\ run[c].pc = "drone_run"
    /\ \E st \in EngineStates, e \in EngineErrs :
         run' = [run EXCEPT ![c].pc = "ret", ![c].exited = st, ![c].rerr = e,
                            ![c].late = (ctx[c] = "deadline"),
                            ![c].timedOut = droneTimedOut(ctx[c]),
                            ![c].status = droneStatus(st, e, ctx[c])]
    /\ ctx' = [ctx EXCEPT ![c] = cancel(@)]
    /\ UNCHANGED <<mu, registries, op, req, pc, result, cctx, chans, det,
                   streamVars, hist>>

\* lines 229 and 252-261: the detached goroutine runs to its end; what it
\* returns is dropped
DetachedReturn(c) ==
    /\ det[c] = "run"
    /\ det' = [det EXCEPT ![c] = "end"]
    /\ ctx' = [ctx EXCEPT ![c] = IF req[c].LogDrone \/ req[c].Timeout > 0
                                 THEN cancel(@) ELSE @]
    /\ UNCHANGED <<mu, registries, op, req, pc, result, cctx, chans, run,
                   streamVars, hist>>

\* ---- completion (the goroutine of StartStep, lines 81-89) ---------------------
CompleteLock(c) ==
    /\ run[c].pc = "ret"
    /\ mu = Free
    /\ mu' = RunTask(c)
    /\ run' = [run EXCEPT ![c].pc = "c_locked"]
    /\ UNCHANGED <<registries, op, req, pc, result, cctx, chans, ctx, det,
                   streamVars, hist>>

\* line 84: channels := e.stepWaitCh[r.ID]
waiters(id) == IF id \in DOMAIN stepWaitCh THEN stepWaitCh[id] ELSE <<>>

\* (mutation of CompleteStore: the Unlock of line 85 is lost, the lock is kept
\* over the sends)
CompleteStoreKeepLock(c) ==
    /\ run[c].pc = "c_locked"
    /\ mu = RunTask(c)
    /\ mu' = mu
    /\ LET id == req[c].ID IN
        /\ stepStatus' = Put(stepStatus, id, run[c].status)
        /\ run' = [run EXCEPT ![c].channels = waiters(id),
                              ![c].pc = IF waiters(id) = <<>> THEN "end" ELSE "send"]
        /\ hist' = [hist EXCEPT !.writes[id] = @ + 1]
    /\ UNCHANGED <<stepLog, stepWaitCh, op, req, pc, result, cctx, chans, ctx, det,
                   streamVars>>

\* lines 83-85: store the Complete record, read the waiter list, Unlock
CompleteStore(c) ==
    /\ run[c].pc = "c_locked"
    /\ mu = RunTask(c)
    /\ mu' = Free
    /\ LET id == req[c].ID IN
        /\ stepStatus' = Put(stepStatus, id, run[c].status)
        /\ run' = [run EXCEPT ![c].channels = waiters(id),
                              ![c].pc = IF waiters(id) = <<>> THEN "end" ELSE "send"]
        /\ hist' = [hist EXCEPT !.writes[id] = @ + 1]
    /\ UNCHANGED <<stepLog, stepWaitCh, op, req, pc, result, cctx, chans, ctx, det,
                   streamVars>>

\* (mutation of chanCap: the channel is made without a buffer)
chanCapNone == 1 - 1

\* line 112: make(chan StepStatus, 1)
chanCap == 1

\* lines 87-89: ch <- status, blocking while the channel's buffer is full
Send(c) ==
    /\ run[c].pc = "send"
    /\ LET ch == Head(run[c].channels) IN
        /\ Len(chans[ch]) < chanCap
        /\ chans' = [chans EXCEPT ![ch] = Append(@, run[c].status)]
        /\ run' = [run EXCEPT ![c].channels = Tail(@),
                              ![c].pc = IF Tail(run[c].channels) = <<>> THEN "end" ELSE "send"]
    /\ UNCHANGED <<mu, registries, op, req, pc, result, cctx, ctx, det, streamVars, hist>>

\* ---- PollStep -----------------------------------------------------------------
\* lines 95-100: validate the identifier, then e.mu.Lock()
PollStepCall(c) ==
    /\ pc[c] = "idle"
    /\ \E id \in Ids \cup {EmptyID} :
        /\ op' = [op EXCEPT ![c] = "PollStep"]
        /\ req' = [req EXCEPT ![c] = IdReq(id)]
        /\ IF id = EmptyID
           THEN /\ Return(c, BadRequest("ID needs to be set", "invalid"))
                /\ mu' = mu
           ELSE /\ mu = Free
                /\ mu' = CallerTask(c)
                /\ pc' = [pc EXCEPT ![c] = "poll_locked"]
                /\ result' = result
    /\ UNCHANGED <<registries, cctx, chans, run, ctx, det, streamVars, hist>>

\* line 107: s.Status == Complete
isComplete(s) == s.Status = Complete

\* (mutation of pollOutcome: the !ok return is lost; the zero StepStatus read
\* from the map is not Complete, so the caller registers and waits)
pollOutcomeNoOk(id) ==
    IF id \in DOMAIN stepStatus /\ isComplete(stepStatus[id]) THEN "complete" ELSE "wait"

\* (mutation of pollOutcome: a Complete entry is not recognised)
pollOutcomeNoComplete(id) ==
    IF id \notin DOMAIN stepStatus THEN "notstarted" ELSE "wait"

\* lines 101-110: which way PollStep goes after reading e.stepStatus[id]
pollOutcome(id) ==
    IF id \notin DOMAIN stepStatus THEN "notstarted"
    ELSE IF isComplete(stepStatus[id]) THEN "complete"
    ELSE "wait"

\* lines 113-117: the new value of e.stepWaitCh[id]
registerWaiter(id, ch) ==
    IF id \notin DOMAIN stepWaitCh THEN Append(<<>>, ch) ELSE <<ch>>

\* lines 101-118: look the status up, return or register a waiter, unlock
PollStepCheck(c) ==
    /\ pc[c] = "poll_locked"
    /\ mu = CallerTask(c)
    /\ mu' = Free
    /\ LET id == req[c].ID IN
       IF pollOutcome(id) = "notstarted"
       THEN /\ Return(c, BadRequest("Step has not started", "notstarted"))
            /\ stepWaitCh' = stepWaitCh
       ELSE IF pollOutcome(id) = "complete"
       THEN /\ Return(c, MkResult("", convertStatus(stepStatus[id]), "complete"))
            /\ stepWaitCh' = stepWaitCh
       ELSE /\ stepWaitCh' = Put(stepWaitCh, id, registerWaiter(id, c))
            /\ pc' = [pc EXCEPT ![c] = "poll_wait"]
            /\ result' = result
    /\ UNCHANGED <<stepStatus, stepLog, op, req, cctx, chans, run, ctx, det,
                   streamVars, hist>>

\* lines 120-121: status := <-ch
PollStepReceive(c) ==
    /\ pc[c] = "poll_wait"
    /\ chans[c] # <<>>
    /\ chans' = [chans EXCEPT ![c] = Tail(@)]
    /\ Return(c, MkResult("", convertStatus(Head(chans[c])), "waited"))
    /\ UNCHANGED <<mu, registries, op, req, cctx, run, ctx, det, streamVars, hist>>

\* the context of an API call is canceled by its caller (during or after the call)
CancelCtx(c) ==
    /\ \/ pc[c] \in {"poll_locked", "poll_wait"}
       \/ pc[c] # "idle" /\ op[c] = "StreamOutput"
    /\ ~cctx[c]
    /\ cctx' = [cctx EXCEPT ![c] = TRUE]
    /\ UNCHANGED <<mu, registries, op, req, pc, result, chans, run, ctx, det,
                   streamVars, hist>>

\* the context handed to the StartStep call that launched a run is canceled by
\* its caller, during the call or while the goroutine of lines 79-90 goes on
CancelStartCtx(c) ==
    /\ op[c] = "StartStep"
    /\ Launched(c)
    /\ ~cctx[c]
    /\ cctx' = [cctx EXCEPT ![c] = TRUE]
    /\ UNCHANGED <<mu, registries, op, req, pc, result, chans, run, ctx, det,
                   streamVars, hist>>

\* ---- log buffer (StepLog) -----------------------------------------------------
\* the buffer's done signal is the Done of the context it was made with
logDone(b) == ctx[b] \in {"canceled", "deadline"}

\* the engine writes a chunk into the buffer of a legacy run: the chunk is kept
\* and sent to every subscribed channel
LogWrite(b) ==
    /\ req[b].LogDrone
    /\ run[b].pc = "drone_run" \/ det[b] = "run"
    /\ ~logDone(b)
    /\ logLen[b] < MaxWrites
    /\ logLen' = [logLen EXCEPT ![b] = @ + 1]
    /\ hist' = [hist EXCEPT !.sendOnClosed = @ \/ (\E s \in subscribers[b] : chClosed[s] > 0)]
    /\ UNCHANGED <<mu, registries, op, req, pc, result, cctx, chans, run, ctx, det,
                   subscribers, elapsed, watcher, chClosed>>

\* ---- StreamOutput ---------------------------------------------------------------
\* lines 125-134: validate the identifier, ts := time.Now()
StreamOutputCall(c) ==
    /\ pc[c] = "idle"
    /\ c \in Streamers
    /\ \E id \in Ids \cup {EmptyID} :
        /\ op' = [op EXCEPT ![c] = "StreamOutput"]
        /\ req' = [req EXCEPT ![c] = IdReq(id)]
        /\ IF id = EmptyID
           THEN Return(c, BadRequest("ID needs to be set", "invalid"))
           ELSE /\ pc' = [pc EXCEPT ![c] = "stream_try"]
                /\ result' = result
    /\ UNCHANGED <<mu, registries, cctx, chans, run, ctx, det, streamVars, hist>>

\* lines 136, 139: stepLog = e.stepLog[id]; stepLog != nil
hasLog(id) == id \in DOMAIN stepLog

\* (mutation of waitedOut: > instead of >=)
waitedOutLate(t) == t > timeoutDelay

\* line 144: time.Since(ts) >= timeoutDelay
waitedOut(t) == t >= timeoutDelay

\* lines 136-147, one pass of the loop at time.Since(ts) = t, by the holder of
\* e.mu: the registry is read, the lock is released, then the loop is left,
\* given up, or the caller sleeps. ts is a local of the loop: elapsed is kept
\* only while the loop goes on.
LoopPass(c, t) ==
    /\ mu = CallerTask(c)
    /\ mu' = Free
    /\ IF hasLog(req[c].ID)
       THEN /\ pc' = [pc EXCEPT ![c] = "stream_sub"]
            /\ result' = result
            /\ elapsed' = [elapsed EXCEPT ![c] = 0]
       ELSE IF waitedOut(t)
       THEN /\ Return(c, BadRequest("Step has not started", "notstarted"))
            /\ elapsed' = [elapsed EXCEPT ![c] = 0]
       ELSE /\ pc' = [pc EXCEPT ![c] = "stream_sleep"]
            /\ result' = result
            /\ elapsed' = [elapsed EXCEPT ![c] = t]

\* line 135: e.mu.Lock() of the first pass of the loop
StreamLock(c) ==
    /\ pc[c] = "stream_try"
    /\ mu = Free
    /\ mu' = CallerTask(c)
    /\ pc' = [pc EXCEPT ![c] = "stream_locked"]
    /\ UNCHANGED <<registries, op, req, result, cctx, chans, run, ctx, det,
                   streamVars, hist>>

\* lines 136-147: the pass made under the lock
StreamLookup(c) ==
    /\ pc[c] = "stream_locked"
    /\ LoopPass(c, elapsed[c])
    /\ UNCHANGED <<registries, op, req, cctx, chans, run, ctx, det,
                   logLen, subscribers, watcher, chClosed, hist>>

\* line 151: case <-time.After(retryDelay), then e.mu.Lock() of the next pass
StreamRetry(c) ==
    /\ pc[c] = "stream_sleep"
    /\ mu = Free
    /\ mu' = CallerTask(c)
    /\ pc' = [pc EXCEPT ![c] = "stream_locked"]
    /\ elapsed' = [elapsed EXCEPT ![c] = @ + retryDelay]
    /\ UNCHANGED <<registries, op, req, result, cctx, chans, run, ctx, det,
                   logLen, subscribers, watcher, chClosed, hist>>

\* lines 152-154: case <-ctx.Done()
StreamCanceled(c) ==
    /\ pc[c] = "stream_sleep"
    /\ cctx[c]
    /\ Return(c, BadRequest("context canceled", "canceled"))
    /\ elapsed' = [elapsed EXCEPT ![c] = 0]
    /\ UNCHANGED <<mu, registries, op, req, cctx, chans, run, ctx, det,
                   logLen, subscribers, watcher, chClosed, hist>>

\* lines 159-178: subscribe; on success start the watcher and return the channel
StreamSubscribe(c) ==
    /\ pc[c] = "stream_sub"
    /\ \E fails \in BOOLEAN :
        IF fails
        THEN /\ Return(c, BadRequest("subscribe failed", "suberr"))
             /\ UNCHANGED <<subscribers, watcher>>
        ELSE /\ subscribers' = [subscribers EXCEPT ![stepLog[req[c].ID]] = @ \cup {c}]
             /\ watcher' = [watcher EXCEPT ![c] = "watch"]
             /\ Return(c, MkResult("", EmptyResponse, "streaming"))
    /\ UNCHANGED <<mu, registries, op, req, cctx, chans, run, ctx, det,
                   logLen, elapsed, chClosed, hist>>

\* the buffer a StreamOutput call subscribed to
logOf(c) == stepLog[req[c].ID]

\* lines 166-172: the watcher's select fires, close(chData)
WatcherClose(c) ==
    /\ watcher[c] = "watch"
    /\ cctx[c] \/ logDone(logOf(c))
    /\ chClosed' = [chClosed EXCEPT ![c] = @ + 1]
    /\ watcher' = [watcher EXCEPT ![c] = "closed"]
    /\ UNCHANGED <<mu, registries, op, req, pc, result, cctx, chans, run, ctx, det,
                   logLen, subscribers, elapsed, hist>>

\* line 173: stepLog.Unsubscribe(chData)
WatcherUnsubscribe(c) ==
    /\ watcher[c] = "closed"
    /\ subscribers' = [subscribers EXCEPT ![logOf(c)] = @ \ {c}]
    /\ watcher' = [watcher EXCEPT ![c] = "end"]
    /\ UNCHANGED <<mu, registries, op, req, pc, result, cctx, chans, run, ctx, det,
                   logLen, elapsed, chClosed, hist>>

\* ---- specifications -------------------------------------------------------------
RunStep(c) ==
    \/ ExecPrimary(c) \/ ExecDroneLock(c) \/ ExecDroneRegister(c)
    \/ DeadlineExpire(c) \/ EngineReturn(c) \/ WriterClose(c)
    \/ EngineReturnDrone(c) \/ DetachedReturn(c)
    \/ CompleteLock(c) \/ CompleteStore(c)

\* StartStep, PollStep and the run
Next ==
    \E c \in Callers :
        \/ StartStepCall(c) \/ StartStepRegister(c)
        \/ RunStep(c) \/ Send(c)
        \/ PollStepCall(c) \/ PollStepCheck(c) \/ PollStepReceive(c)
        \/ CancelCtx(c)

Spec == Init /\ [][Next]_vars

\* StartStep, StreamOutput, the run and its log buffer
NextStream ==
    \E c \in StreamCallers :
        \/ StartStepCall(c) \/ StartStepRegister(c)
        \/ RunStep(c) \/ LogWrite(c)
        \/ StreamOutputCall(c) \/ StreamLock(c) \/ StreamLookup(c)
        \/ StreamRetry(c) \/ StreamCanceled(c) \/ StreamSubscribe(c)
        \/ WatcherClose(c) \/ WatcherUnsubscribe(c)
        \/ CancelCtx(c)

SpecStream == Init /\ [][NextStream]_vars

\* The three API operations together, and the run
NextAll ==
    \E c \in AllCallers :
        \/ StartStepCall(c) \/ StartStepRegister(c)
        \/ RunStep(c) \/ Send(c)
        \/ PollStepCall(c) \/ PollStepCheck(c) \/ PollStepReceive(c)
        \/ StreamOutputCall(c) \/ StreamLock(c) \/ StreamLookup(c)
        \/ StreamRetry(c) \/ StreamCanceled(c) \/ StreamSubscribe(c)
        \/ WatcherClose(c) \/ WatcherUnsubscribe(c)
        \/ CancelCtx(c)

SpecAll == Init /\ [][NextAll]_vars

\* The three API operations and the run, with the context of every kind of
\* call open to cancellation by its caller
NextCancel ==
    \E c \in CancelCallers :
        \/ StartStepCall(c) \/ StartStepRegister(c)
        \/ RunStep(c) \/ Send(c)
        \/ PollStepCall(c) \/ PollStepCheck(c) \/ PollStepReceive(c)
        \/ StreamOutputCall(c) \/ StreamLock(c) \/ StreamLookup(c)
        \/ StreamRetry(c) \/ StreamCanceled(c) \/ StreamSubscribe(c)
        \/ WatcherClose(c) \/ WatcherUnsubscribe(c)
        \/ CancelCtx(c) \/ CancelStartCtx(c)

SpecCancel == Init /\ [][NextCancel]_vars

\* StartStep, PollStep and the run, with the scheduling of goroutines: a task
\* that can take the lock, leave its locked section or send on a channel with
\* room does so in the end. Nothing is assumed of the engine or of the callers.
NextFair ==
    \E c \in FairCallers :
        \/ StartStepCall(c) \/ StartStepRegister(c)
        \/ RunStep(c) \/ Send(c)
        \/ PollStepCall(c) \/ PollStepCheck(c) \/ PollStepReceive(c)

Scheduled(c) ==
    /\ WF_vars(StartStepRegister(c)) /\ WF_vars(PollStepCheck(c))
    /\ WF_vars(ExecDroneRegister(c))
    /\ WF_vars(CompleteLock(c)) /\ WF_vars(CompleteStore(c)) /\ WF_vars(Send(c))

SpecFair == Init /\ [][NextFair]_vars /\ \A c \in FairCallers : Scheduled(c)

\* ---- claims ------------------------------------------------------------------------
Returned(c, o) == op[c] = o /\ pc[c] = "done"
Stored(c) == run[c].pc \in {"send", "end"}
Finished(c) == run[c].pc \in {"ret", "c_locked", "send", "end"}

\* C1: for every identifier, however the StartStep calls interleave, the run is
\* launched at most once; each StartStep on a non-empty identifier returns
\* success, and all but one of them find the entry and launch nothing.
C1_StartAtMostOnce ==
    /\ \A id \in Ids :
        /\ hist.launches[id] <= 1
        /\ Cardinality({c \in Callers : Launched(c) /\ req[c].ID = id}) <= 1
    /\ \A c \in Callers :
        (Returned(c, "StartStep") /\ req[c].ID # EmptyID) =>
            /\ result[c].err = ""
            /\ result[c].via \in {"launched", "exists"}
            /\ (result[c].via = "exists" => ~Launched(c) /\ req[c].ID \in DOMAIN stepStatus)
            /\ (result[c].via = "launched" => Launched(c))

C1_Witness ==
    \E c1, c2 \in Callers :
        /\ c1 # c2 /\ req[c1].ID = req[c2].ID
        /\ Returned(c1, "StartStep") /\ result[c1].via = "launched"
        /\ Returned(c2, "StartStep") /\ result[c2].via = "exists"

\* C2 (as claimed): once the completion task has finished delivering, no
\* PollStep caller that registered on that identifier while it was Running is
\* still blocked with nothing to receive.
C2_AllWaitersServed ==
    \A r \in Callers :
        run[r].pc = "end" =>
            \A c \in Callers :
                (op[c] = "PollStep" /\ req[c].ID = req[r].ID /\ pc[c] = "poll_wait")
                    => chans[c] # <<>>

\* C3: once the entry of an identifier is Complete, a PollStep on it returns
\* the conversion of the stored record at once, registering no waiter, and any
\* two such calls return the same response.
C3_SameResponse ==
    \A c1, c2 \in Callers :
        (/\ Returned(c1, "PollStep") /\ result[c1].via = "complete"
         /\ Returned(c2, "PollStep") /\ result[c2].via = "complete"
         /\ req[c1].ID = req[c2].ID)
        => /\ result[c1] = result[c2]
           /\ result[c1].err = ""
           /\ result[c1].resp = convertStatus(stepStatus[req[c1].ID])

C3_StepOnComplete ==
    \A c \in Callers :
        (/\ pc[c] = "poll_locked"
         /\ req[c].ID \in DOMAIN stepStatus
         /\ stepStatus[req[c].ID].Status = Complete
         /\ pc'[c] # pc[c])
        => /\ pc'[c] = "done"
           /\ result'[c].resp = convertStatus(stepStatus[req[c].ID])
           /\ stepWaitCh' = stepWaitCh
           /\ chans' = chans

C4_StepNotStarted ==
    \A c \in Callers :
        (/\ pc[c] = "poll_locked"
         /\ req[c].ID \notin DOMAIN stepStatus
         /\ pc'[c] # pc[c])
        => /\ pc'[c] = "done"
           /\ result'[c].err = "Step has not started"
           /\ result'[c].resp = EmptyResponse
           /\ registries' = registries
           /\ chans' = chans

C4_PollBeforeStart == [][C4_StepNotStarted]_vars

C4_Witness ==
    \E c \in Callers :
        /\ Returned(c, "PollStep") /\ req[c].ID # EmptyID
        /\ result[c].err = "Step has not started"

\* C5: an identifier has no entry, a Running entry without results, or a
\* Complete entry; the entry is written once as Running and once as Complete;
\* no step removes an entry, turns Complete back, or changes a Complete entry.
C5_EntryShape ==
    \A id \in Ids :
        IF id \notin DOMAIN stepStatus THEN hist.writes[id] = 0
        ELSE \/ stepStatus[id] = RunningStatus /\ hist.writes[id] = 1
             \/ stepStatus[id].Status = Complete /\ hist.writes[id] = 2

C5_StepMonotonic ==
    \A id \in DOMAIN stepStatus :
        /\ id \in DOMAIN stepStatus'
        /\ (stepStatus[id].Status = Complete => stepStatus'[id] = stepStatus[id])

C5_StatusMonotonic == []C5_EntryShape /\ [][C5_StepMonotonic]_vars

C5_Witness ==
    \E c1, c2 \in Callers :
        /\ Returned(c1, "StartStep") /\ result[c1].via = "launched" /\ Stored(c1)
        /\ stepStatus[req[c1].ID].Status = Complete
        /\ hist.writes[req[c1].ID] = 2
        /\ op[c2] = "StartStep" /\ pc[c2] = "start_locked" /\ req[c2].ID = req[c1].ID

\* C6: a non-detached run with a positive timeout whose deadline passed before
\* the engine returned is recorded, on either path, with the deadline error
\* alone as its step error, whatever the engine and the writer returned; the
\* poll response carries that text and a nonzero exit code.
HasCause(e, c) == \E i \in 1..Len(e.causes) : e.causes[i] = c

TimeoutCase(c) ==
    Launched(c) /\ Finished(c) /\ ~req[c].Detach /\ req[c].Timeout > 0 /\ run[c].late

DeadlineResponse(r) == r.Error = ErrorText(DeadlineExceeded) /\ r.ExitCode # 0

PollResponses(id) ==
    {result[p].resp : p \in {q \in Callers : Returned(q, "PollStep") /\ req[q].ID = id
                                              /\ result[q].via \in {"complete", "waited"}}}

C6_TimeoutReported ==
    \A c \in Callers :
        TimeoutCase(c) =>
            /\ run[c].status.Status = Complete
            /\ run[c].status.StepErr = DeadlineExceeded
            /\ DeadlineResponse(convertStatus(run[c].status))
            /\ Stored(c) =>
                /\ stepStatus[req[c].ID] = run[c].status
                /\ \A r \in PollResponses(req[c].ID) : DeadlineResponse(r)

C6_Witness ==
    \E c \in Callers :
        /\ TimeoutCase(c) /\ Stored(c) /\ ~req[c].LogDrone
        /\ run[c].rerr # NilErr /\ run[c].cerr # NilErr /\ ~run[c].exited.nil
        /\ PollResponses(req[c].ID) # {}

\* C7 (as claimed): on the primary path without timeout expiry, a run error and
\* a close error are both causes of the step error, and a nonzero exit code
\* with a failed close gives a poll error text holding both the close cause
\* and the exit-status cause.
AggregateCase(c) ==
    Launched(c) /\ Finished(c) /\ ~req[c].LogDrone /\ ~req[c].Detach /\ ~run[c].timedOut

BothErrorsKept(c) ==
    (run[c].rerr # NilErr /\ run[c].cerr # NilErr) =>
        /\ HasCause(run[c].status.StepErr, "run failed")
        /\ HasCause(run[c].status.StepErr, "stream close failed")

NonzeroAndCloseFailed(c) ==
    ~run[c].exited.nil /\ run[c].exited.ExitCode # 0 /\ run[c].cerr # NilErr

PollText(c) == convertStatus(run[c].status).Error

ExitCause(c) == ExitStatusErr(run[c].exited.ExitCode).causes[1]

C7_Original ==
    \A c \in Callers :
        AggregateCase(c) =>
            /\ BothErrorsKept(c)
            /\ NonzeroAndCloseFailed(c) =>
                /\ TextHas(PollText(c), "stream close failed")
                /\ TextHas(PollText(c), ExitCause(c))

\* C7 (amended): as above, but the exit-status cause is in the text only when
\* the state is not OOM-killed; for an OOM-killed state with a nonzero exit
\* code the text holds the close cause and the OOM cause.
C7_ErrorsAggregate ==
    \A c \in Callers :
        AggregateCase(c) =>
            /\ BothErrorsKept(c)
            /\ NonzeroAndCloseFailed(c) =>
                /\ TextHas(PollText(c), "stream close failed")
                /\ IF run[c].exited.OOMKilled
                   THEN TextHas(PollText(c), "oom killed") /\ ~TextHas(PollText(c), ExitCause(c))
                   ELSE TextHas(PollText(c), ExitCause(c))
            /\ Stored(c) =>
                /\ stepStatus[req[c].ID] = run[c].status
                /\ \A r \in PollResponses(req[c].ID) : r.Error = PollText(c)

C7_Witness ==
    \E c \in Callers :
        /\ AggregateCase(c) /\ Stored(c)
        /\ run[c].rerr # NilErr /\ NonzeroAndCloseFailed(c) /\ ~run[c].exited.OOMKilled
        /\ PollResponses(req[c].ID) # {}

\* C8 (as claimed): a StreamOutput call during whose wait a StartStep for its
\* identifier registered the step, and whose caller did not cancel, does not
\* fail with "Step has not started" (an error of Subscribe itself is not held
\* against the claim, nor is a run task that has not yet come to run).
RunReturned(id) == \E r \in Callers : Launched(r) /\ req[r].ID = id /\ Finished(r)

C8_Original ==
    \A c \in Streamers :
        (/\ Returned(c, "StreamOutput") /\ hist.startedInWait[c] /\ ~cctx[c]
         /\ RunReturned(req[c].ID) /\ ~hasLog(req[c].ID))
            => result[c].via \in {"streaming", "suberr"}

\* C8 (amended): the wait ends with success exactly when a pass of the loop
\* finds a log buffer, and only the run task of a legacy (LogDrone) StartStep
\* registers one; a pass that finds none at 5 s or later fails with "Step has
\* not started"; the caller never sleeps once 5 s have elapsed.
InLoop(c) == pc[c] = "stream_locked"
PassTime(c) == elapsed[c]
Moves(c) == pc'[c] # pc[c] \/ elapsed'[c] # elapsed[c]

C8_WaitBounded ==
    /\ \A c \in Streamers :
        /\ pc[c] = "stream_sleep" => elapsed[c] < timeoutDelay
        /\ result[c].via = "streaming" => hasLog(req[c].ID)
    /\ \A id \in DOMAIN stepLog :
        req[stepLog[id]].LogDrone /\ req[stepLog[id]].ID = id /\ Launched(stepLog[id])

C8_StepOfLoop ==
    \A c \in Streamers :
        /\ (InLoop(c) /\ Moves(c) /\ hasLog(req[c].ID) /\ ~cctx[c])
               => pc'[c] = "stream_sub"
        /\ (InLoop(c) /\ pc'[c] = "stream_sub") => hasLog(req[c].ID)
        /\ (InLoop(c) /\ result'[c].via = "notstarted")
               => ~hasLog(req[c].ID) /\ PassTime(c) >= timeoutDelay
        /\ (InLoop(c) /\ Moves(c) /\ ~hasLog(req[c].ID) /\ ~cctx[c]
               /\ PassTime(c) >= timeoutDelay)
               => result'[c].via = "notstarted" /\ pc'[c] = "done"
        /\ (pc[c] = "stream_sub" /\ pc'[c] # pc[c])
               => pc'[c] = "done" /\ result'[c].via \in {"streaming", "suberr"}

C8_StreamBeforeStart == []C8_WaitBounded /\ [][C8_StepOfLoop]_vars

C8_Witness ==
    \E c \in Streamers :
        /\ Returned(c, "StreamOutput") /\ result[c].via = "streaming"
        /\ hist.startedInWait[c] /\ ~cctx[c]

\* C9 (as claimed): the channel of a StreamOutput call is closed at most once
\* and nothing is sent on it after it has been closed.
C9_ClosedOnceNoSendAfter ==
    /\ \A c \in Streamers : chClosed[c] <= 1
    /\ ~hist.sendOnClosed

\* C10: a step with Detach set is recorded Complete with the "not exited" state
\* and no error without the engine run being waited for, on either path; the
\* detached run ends on its own and its end does not change the status table.
C10_NotExited ==
    \A c \in Callers :
        (Launched(c) /\ req[c].Detach) =>
            /\ run[c].pc \notin {"p_run", "p_close", "drone_run"}
            /\ Finished(c) => run[c].status = detachedStatus
            /\ Stored(c) =>
                /\ stepStatus[req[c].ID] = detachedStatus
                /\ \A r \in PollResponses(req[c].ID) :
                       ~r.Exited /\ r.Error = NoText /\ r.ExitCode = 0

C10_StepOfDetached ==
    \A c \in Callers :
        (det[c] = "run" /\ det'[c] # det[c]) =>
            /\ det'[c] = "end"
            /\ stepStatus' = stepStatus
            /\ run' = run

C10_DetachedStep == []C10_NotExited /\ [][C10_StepOfDetached]_vars

C10_Witness ==
    \E c \in Callers :
        /\ Launched(c) /\ req[c].Detach /\ Stored(c)
        /\ det[c] = "run"
        /\ PollResponses(req[c].ID) # {}

\* C11: the exit code of every poll response is 255 whenever the stored step
\* error is not nil, whatever exit code the state holds, and is otherwise the
\* exit code of the state (0 when no state was recorded).
StoredStatus(c) == stepStatus[req[c].ID]

C11_ExitCodeSentinel ==
    \A c \in Callers :
        (Launched(c) /\ Stored(c)) =>
            \A r \in PollResponses(req[c].ID) :
                /\ StoredStatus(c).StepErr # NilErr => r.ExitCode = 255
                /\ (StoredStatus(c).StepErr = NilErr /\ StoredStatus(c).State.nil)
                       => r.ExitCode = 0
                /\ (StoredStatus(c).StepErr = NilErr /\ ~StoredStatus(c).State.nil)
                       => r.ExitCode = StoredStatus(c).State.ExitCode

C11_Witness ==
    \E c \in Callers :
        /\ Launched(c) /\ Stored(c)
        /\ StoredStatus(c).StepErr # NilErr
        /\ ~StoredStatus(c).State.nil /\ StoredStatus(c).State.ExitCode = 0
        /\ \E r \in PollResponses(req[c].ID) : r.ExitCode = 255

\* C12 (as claimed): once the completion task of an identifier has delivered
\* the final status, the waiter registry holds no channel for the identifier;
\* apart from a delivery in progress, a waiter entry holds channels only while
\* the identifier's status is Running and some PollStep caller is blocked on it.
Delivering(id) == \E r \in Callers : req[r].ID = id /\ run[r].pc = "send"
BlockedOn(id) == {p \in Callers : op[p] = "PollStep" /\ req[p].ID = id /\ pc[p] = "poll_wait"}

C12_WaitersCleared ==
    /\ \A c \in Callers :
        (Launched(c) /\ run[c].pc = "end") => waiters(req[c].ID) = <<>>
    /\ \A id \in DOMAIN stepWaitCh :
        (stepWaitCh[id] # <<>> /\ ~Delivering(id)) =>
            /\ id \in DOMAIN stepStatus /\ stepStatus[id].Status = Running
            /\ BlockedOn(id) # {}

\* C13: the context of a run is made from the request timeout alone: it is
\* done before the engine run has returned only by a deadline, and only when
\* the timeout is positive; no terminal status carries a cancellation error;
\* and a step in which a caller cancels its context (of StartStep, PollStep
\* or StreamOutput) changes nothing of any run, run context, log buffer or
\* registry.
EngineDone(c) == IF req[c].Detach THEN det[c] = "end" ELSE Finished(c)

C13_RunScope ==
    \A c \in Callers :
        Launched(c) =>
            /\ ctx[c] = "deadline" => req[c].Timeout > 0
            /\ ctx[c] = "canceled" => EngineDone(c)
            /\ run[c].timedOut => req[c].Timeout > 0
            /\ run[c].status.StepErr # Canceled

C13_StepOfCancel ==
    (cctx' # cctx) =>
        /\ UNCHANGED <<run, ctx, det, registries, logLen, chans, mu>>

C13_CancelLeavesRun == []C13_RunScope /\ [][C13_StepOfCancel]_vars

C13_Witness ==
    \E c, p \in Callers :
        /\ c # p /\ req[p].ID = req[c].ID
        /\ Launched(c) /\ cctx[c]
        /\ op[p] \in {"PollStep", "StreamOutput"} /\ cctx[p]
        /\ req[c].Timeout = 0
        /\ run[c].pc \in {"p_run", "drone_run"} /\ ctx[c] = "live"

\* C14 (as claimed): a PollStep caller that is blocked on a Running step and
\* whose own context is canceled can return: its call has a step to take
\* whether or not the step has completed.
CanceledWaiter(c) == op[c] = "PollStep" /\ pc[c] = "poll_wait" /\ cctx[c]

C14_CanceledPollReturns ==
    \A c \in Callers :
        CanceledWaiter(c) => ENABLED PollStepReceive(c)

\* C15: e.mu is held only between a Lock and the Unlock that follows it: by a
\* StartStep, PollStep or StreamOutput call inside its registry section, or by
\* a run task registering its log buffer or storing the Complete record. No
\* task holds it while the engine runs, while it sends on or receives from a
\* waiter channel, sleeps in the retry wait or subscribes; whoever holds it
\* can take its next step, which releases it; and StartStep has returned
\* while the run it launched goes on.
LockedPcs == {"start_locked", "poll_locked", "stream_locked"}
LockedRunPcs == {"drone_locked", "c_locked"}

HolderStep(c) ==
    \/ StartStepRegister(c) \/ PollStepCheck(c) \/ StreamLookup(c)
    \/ ExecDroneRegister(c) \/ CompleteStore(c)

C15_LockOnlyInSections ==
    /\ \A c \in Callers :
        /\ pc[c] \in LockedPcs <=> mu = CallerTask(c)
        /\ run[c].pc \in LockedRunPcs <=> mu = RunTask(c)
        /\ Launched(c) => pc[c] = "done"
    /\ mu # Free =>
        /\ \E c \in Callers : mu \in {CallerTask(c), RunTask(c)}
        /\ ENABLED HolderStep(mu.c)

C15_StepOfHolder ==
    \A c \in Callers :
        /\ (mu = CallerTask(c) /\ pc'[c] # pc[c]) => mu' = Free
        /\ (mu = RunTask(c) /\ run'[c] # run[c]) => mu' = Free
        /\ (mu' # mu) => (mu = Free \/ mu' = Free)

C15_LockNeverAcrossBlocking == []C15_LockOnlyInSections /\ [][C15_StepOfHolder]_vars

C15_Witness ==
    \E c, p \in Callers :
        /\ Returned(c, "StartStep") /\ run[c].pc \in {"p_run", "drone_run"}
        /\ mu = CallerTask(p) /\ op[p] = "StreamOutput" /\ elapsed[p] > 0

\* C16: once the engine run of a started step has returned, the completion
\* task gets to store the Complete record made from what the run returned and
\* to finish its sends; a send it has to make is always possible, no waiter
\* channel ever holding more than the one value its buffer has room for.
C16_SendNeverBlocks ==
    \A c \in Callers :
        /\ run[c].pc = "send" => ENABLED Send(c)
        /\ Len(chans[c]) <= chanCap
        /\ Stored(c) =>
            /\ stepStatus[req[c].ID] = run[c].status
            /\ run[c].status.Status = Complete

C16_CompletionEnds ==
    \A c \in Callers : (run[c].pc = "ret") ~> (run[c].pc = "end")

C16_CompletesAndDelivers == []C16_SendNeverBlocks /\ C16_CompletionEnds

C16_Witness ==
    \E c, p \in Callers :
        /\ run[c].pc = "end" /\ run[c].status.StepErr # NilErr
        /\ Returned(p, "PollStep") /\ req[p].ID = req[c].ID /\ result[p].via = "waited"

\* C17 (as claimed): in the poll response of every terminal status the exited
\* flag is true without a process state and the state's flag otherwise; every
\* cause of the stored step error is in the error text; an OOM-killed state
\* adds the OOM cause and a nonzero exit code adds the exit-status cause, also
\* when the state is both OOM-killed and of nonzero exit code.
ExitedAsState(s, r) == r.Exited = (IF s.State.nil THEN TRUE ELSE s.State.Exited)

KeepsStepErr(s, r) ==
    \A i \in 1..Len(s.StepErr.causes) : TextHas(r.Error, s.StepErr.causes[i])

OOMCauseAdded(s, r) ==
    (~s.State.nil /\ s.State.OOMKilled) => TextHas(r.Error, "oom killed")

ExitCauseOf(s) == ExitStatusErr(s.State.ExitCode).causes[1]

C17_Original ==
    \A c \in Callers :
        (Launched(c) /\ Stored(c)) =>
            \A r \in PollResponses(req[c].ID) :
                /\ ExitedAsState(StoredStatus(c), r)
                /\ KeepsStepErr(StoredStatus(c), r)
                /\ OOMCauseAdded(StoredStatus(c), r)
                /\ (~StoredStatus(c).State.nil /\ StoredStatus(c).State.ExitCode # 0)
                       => TextHas(r.Error, ExitCauseOf(StoredStatus(c)))

\* C17 (amended): as above, but the exit-status cause is added only for a state
\* that is not OOM-killed; a state that is OOM-killed and of nonzero exit code
\* adds the OOM cause alone.
C17_ResponseConversion ==
    \A c \in Callers :
        (Launched(c) /\ Stored(c)) =>
            \A r \in PollResponses(req[c].ID) :
                /\ ExitedAsState(StoredStatus(c), r)
                /\ KeepsStepErr(StoredStatus(c), r)
                /\ OOMCauseAdded(StoredStatus(c), r)
                /\ (~StoredStatus(c).State.nil /\ StoredStatus(c).State.ExitCode # 0) =>
                       IF StoredStatus(c).State.OOMKilled
                       THEN ~TextHas(r.Error, ExitCauseOf(StoredStatus(c)))
                       ELSE TextHas(r.Error, ExitCauseOf(StoredStatus(c)))

C17_Witness ==
    \E c \in Callers :
        /\ Launched(c) /\ Stored(c)
        /\ ~StoredStatus(c).State.nil /\ StoredStatus(c).State.OOMKilled
        /\ StoredStatus(c).State.ExitCode # 0
        /\ HasCause(StoredStatus(c).StepErr, "run failed")
        /\ \E r \in PollResponses(req[c].ID) :
               TextHas(r.Error, "run failed") /\ TextHas(r.Error, "oom killed")

\* C18: PollStep reads the status and registers its channel inside one locked
\* section, and the completion task stores Complete and reads the waiter list
\* inside one: the waiter registry changes only in a step that finds the
\* identifier Running and leaves it so, whose channel is then in the list; the
\* completion task reads the list in the step that stores Complete; so the
\* one PollStep caller of an identifier is never left waiting once the
\* completion task of that identifier has ended.
PollersOf(id) == {p \in Callers : op[p] = "PollStep" /\ req[p].ID = id}
InList(ch, l) == \E i \in 1..Len(l) : l[i] = ch

C18_NoLostWakeup ==
    \A c \in Callers :
        (Launched(c) /\ run[c].pc = "end" /\ Cardinality(PollersOf(req[c].ID)) = 1) =>
            \A p \in PollersOf(req[c].ID) :
                /\ pc[p] # "poll_locked" => (pc[p] = "done" \/ chans[p] # <<>>)
                /\ pc[p] = "done" =>
                    /\ result[p].via \in {"notstarted", "complete", "waited"}
                    /\ result[p].via # "notstarted" =>
                           result[p].resp = convertStatus(run[c].status)

C18_StepOfRegister ==
    \A id \in Ids :
        /\ waiters(id)' # waiters(id) =>
            /\ id \in DOMAIN stepStatus /\ stepStatus[id].Status = Running
            /\ stepStatus' = stepStatus
            /\ \E p \in Callers :
                /\ mu = CallerTask(p) /\ pc[p] = "poll_locked" /\ pc'[p] = "poll_wait"
                /\ InList(p, waiters(id)')
        /\ (id \in DOMAIN stepStatus /\ stepStatus'[id] # stepStatus[id]
            /\ stepStatus'[id].Status = Complete) =>
            \E c \in Callers :
                /\ mu = RunTask(c) /\ req[c].ID = id
                /\ run'[c].channels = waiters(id)

C18_CheckAndRegisterAtomic == []C18_NoLostWakeup /\ [][C18_StepOfRegister]_vars

C18_Witness ==
    \E c, p \in Callers :
        /\ Launched(c) /\ run[c].pc = "c_locked" /\ PollersOf(req[c].ID) = {p}
        /\ pc[p] = "poll_wait" /\ InList(p, waiters(req[c].ID))

\* C19: the log-buffer registry has an entry for an identifier only if the
\* identifier has a status entry and its step was launched with LogDrone; a
\* step launched without LogDrone never gets one; the entry is written by the
\* run task of the step, in its own locked section, when the StartStep call
\* that launched it has already returned.
C19_LogOnlyLegacy ==
    /\ \A id \in DOMAIN stepLog :
        /\ id \in DOMAIN stepStatus
        /\ Launched(stepLog[id]) /\ req[stepLog[id]].ID = id
        /\ req[stepLog[id]].LogDrone
        /\ run[stepLog[id]].pc \notin {"exec", "drone_locked"}
    /\ \A c \in Callers :
        (Launched(c) /\ ~req[c].LogDrone) => ~hasLog(req[c].ID)

C19_StepOfLogRegister ==
    (stepLog' # stepLog) =>
        \E c \in Callers :
            /\ mu = RunTask(c) /\ run[c].pc = "drone_locked" /\ req[c].LogDrone
            /\ Returned(c, "StartStep")
            /\ ~hasLog(req[c].ID)
            /\ stepLog' = Put(stepLog, req[c].ID, c)

C19_LogRegistry == []C19_LogOnlyLegacy /\ [][C19_StepOfLogRegister]_vars

C19_Witness ==
    \E c, s \in Callers :
        /\ Returned(c, "StartStep") /\ req[c].LogDrone
        /\ hasLog(req[c].ID) /\ stepLog[req[c].ID] = c /\ run[c].pc = "drone_run"
        /\ op[s] = "StreamOutput" /\ req[s].ID = req[c].ID
        /\ pc[s] = "stream_sleep" /\ hist.startedInWait[s]

\* C20: on the primary path without Detach the context is examined once, after
\* the writer's Close has returned. If the deadline has passed by then, also
\* when it passed during the Close after a run that returned in time and
\* without error, the step is recorded with the deadline error, no process
\* state and no outputs, artifact, v2 outputs or token, the telemetry alone
\* being kept; if it has not, the record carries no deadline or cancellation
\* error and keeps what the run returned; a step with a timeout of zero or
\* less is never recorded with a deadline or cancellation error.
PrimaryRun(c) == Launched(c) /\ Finished(c) /\ ~req[c].LogDrone /\ ~req[c].Detach

C20_TimeoutAfterClose ==
    \A c \in Callers :
        PrimaryRun(c) =>
            /\ run[c].expired =>
                /\ req[c].Timeout > 0
                /\ run[c].status = MkStatus(Complete, NilState, DeadlineExceeded,
                                            OnlyTelemetry(run[c].res))
            /\ ~run[c].expired =>
                /\ run[c].status.StepErr \notin {DeadlineExceeded, Canceled}
                /\ run[c].status.State = run[c].exited
                /\ run[c].status.Res = run[c].res
            /\ run[c].late => run[c].expired
            /\ req[c].Timeout <= 0 => ~run[c].expired
            /\ Stored(c) =>
                /\ stepStatus[req[c].ID] = run[c].status
                /\ \A r \in PollResponses(req[c].ID) :
                       /\ r.Res = run[c].status.Res
                       /\ run[c].expired => DeadlineResponse(r)

C20_Witness ==
    \E c \in Callers :
        /\ PrimaryRun(c) /\ Stored(c)
        /\ ~run[c].late /\ run[c].expired
        /\ run[c].rerr = NilErr /\ run[c].cerr = NilErr
        /\ run[c].exited = MkState(TRUE, 0, FALSE) /\ run[c].res = FullResults
        /\ \E r \in PollResponses(req[c].ID) :
               r.Res = OnlyTelemetry(FullResults) /\ r.Res.Telemetry = "telemetry"

====
